---- MODULE Spec2Model ----
(***************************************************************************)
(* gifski-api/src/lib.rs: the Collector, the ordered input queue and the   *)
(* four-stage encoding pipeline started by Writer::write (threads "diff",  *)
(* "quant", "remap" and the caller's thread running write_frames).         *)
(*                                                                         *)
(* Time: a presentation timestamp is an f64 in seconds.  The model draws   *)
(* timestamps from multiples of 1/8 s, which f64 represents exactly, as    *)
(* are their sums, differences and products by 100 at these magnitudes, so *)
(* the integer arithmetic below is the arithmetic the code performs.       *)
(* A timestamp t (seconds) is the integer 8*t ("ticks").                   *)
(***************************************************************************)
EXTENDS Integers, Sequences, FiniteSets, TLC

\* ---------------------------------------------------------------- bounds
\* most frames one run adds in the specifications Spec, SpecOrder, SpecTiming
MaxFrames == 3
\* most frames one run adds in SpecQueue (more than the input queue holds)
MaxQueueFrames == 5
\* most frames one run adds in SpecLive (enough to fill every channel)
MaxLiveFrames == 13

\* ------------------------------------------------------ program constants
\* ordqueue::new(4) in new()
OrdQueueDepth == 4
\* crossbeam_channel::bounded(4): diff -> quant
QuantQueueCap == 4
\* crossbeam_channel::bounded(8): quant -> remap
RemapQueueCap == 8
\* crossbeam_channel::bounded(6): remap -> writer
WriteQueueCap == 6
\* .min(30000) in write_frames
MaxDelay == 30000
\* end_pts * 100.0 in write_frames: delay units per second
DelayUnitsPerSecond == 100
\* ticks of the model per second (timestamps are multiples of 1/8 s)
TicksPerSecond == 8

None == -1
NoMsg == [dispose |-> "Keep", ordinal |-> 0, end_pts |-> 0, src |-> None]

Min(a, b) == IF a < b THEN a ELSE b
Abs(a) == IF a < 0 THEN -a ELSE a

RECURSIVE SumSeq(_)
SumSeq(s) == IF s = <<>> THEN 0 ELSE Head(s) + SumSeq(Tail(s))

StrictlyIncreasing(s) == \A i \in 1..Len(s) - 1 : s[i] < s[i + 1]

\* --------------------------------------------------------- pure functions
\* (end_pts * 100.0).round() as u64: f64::round rounds half away from zero,
\* the cast to u64 saturates, so a negative value becomes 0.
RoundToDelayUnits(t) ==
    LET n == Abs(t) * DelayUnitsPerSecond
        r == (2 * n + TicksPerSecond) \div (2 * TicksPerSecond)
    IN IF t < 0 THEN 0 ELSE r

\* a - b for u64, saturating at 0
SaturatingSub(a, b) == IF a > b THEN a - b ELSE 0

DelayNoCap(end_pts, pts_in_delay_units) ==
    SaturatingSub(RoundToDelayUnits(end_pts), pts_in_delay_units)

DelayFromZero(end_pts, pts_in_delay_units) ==
    Min(RoundToDelayUnits(end_pts), MaxDelay)

\* the delay write_frames computes for one frame
Delay(end_pts, pts_in_delay_units) ==
    Min(SaturatingSub(RoundToDelayUnits(end_pts), pts_in_delay_units), MaxDelay)

\* first_frame_pts > 1./100.
FirstPtsShifts(first_frame_pts) ==
    first_frame_pts * DelayUnitsPerSecond > TicksPerSecond

EndPtsNoFirstRule(pts, prev_frame_pts, first_frame_pts, has_next, next_pts) ==
    IF has_next THEN next_pts - first_frame_pts
    ELSE pts + (pts - prev_frame_pts)

\* make_diffs: conversion from pts to delay; pts is already rebased
EndPts(pts, prev_frame_pts, first_frame_pts, has_next, next_pts) ==
    IF has_next THEN next_pts - first_frame_pts
    ELSE IF FirstPtsShifts(first_frame_pts) THEN pts + first_frame_pts
    ELSE pts + (pts - prev_frame_pts)

\* an RGBA8 pixel; an image is the sequence of its pixels, row after row
RGBA(c, alpha) == [rgb |-> c, a |-> alpha]

\* RGBA8::new(0, 0, 0, 0)
Transparent == RGBA("black", 0)

DimensionsRounded(img_size, to) ==
    LET img_w == img_size[1]
        img_h == img_size[2]
        area == 800 * 600
        RoundDiv(a, b) == (2 * a + b) \div (2 * b)
        CeilDiv(a, b) == (a + b - 1) \div b
    IN IF to[1] = None /\ to[2] = None
       THEN IF img_w * img_h <= area THEN <<img_w, img_h>>
            ELSE <<img_w \div CeilDiv(img_w * img_h + area, area),
                   img_h \div CeilDiv(img_w * img_h + area, area)>>
       ELSE IF to[1] # None /\ to[2] # None
       THEN <<Min(to[1], img_w), Min(to[2], img_h)>>
       ELSE IF to[1] # None
       THEN <<Min(to[1], img_w), RoundDiv(img_h * Min(to[1], img_w), img_w)>>
       ELSE <<RoundDiv(img_w * Min(to[2], img_h), img_h), Min(to[2], img_h)>>

\* dimensions_for_image((img_w, img_h), resize_to); usize division truncates
DimensionsForImage(img_size, to) ==
    LET img_w == img_size[1]
        img_h == img_size[2]
    IN IF to[1] = None /\ to[2] = None
       THEN LET factor == (img_w * img_h + 800 * 600) \div (800 * 600)
            IN IF factor > 1 THEN <<img_w \div factor, img_h \div factor>>
               ELSE <<img_w, img_h>>
       ELSE IF to[1] # None /\ to[2] # None
       THEN <<Min(to[1], img_w), Min(to[2], img_h)>>
       ELSE IF to[1] # None
       THEN LET w == Min(to[1], img_w) IN <<w, (img_h * w) \div img_w>>
       ELSE LET h == Min(to[2], img_h) IN <<(img_w * h) \div img_h, h>>

\* ------------------------------------------------------------------ state
VARIABLES
    \* the run's input, fixed by Init
    frames,          \* index -> [img, size, pts, vanish]: what add_frame(index, ..) is given
    order,           \* the order in which the Collector thread pushes the indices
    abortAt,         \* the call of increase() that returns false (0: none does)
    fault,           \* [stage, at]: the stage whose library call fails, and the ordinal
    \* Collector and its OrdQueue
    cpos,            \* number of add_frame calls made
    cstate,          \* "alive" | "dropped"
    oqBuf,           \* indices buffered in the ordered queue
    oqNext,          \* next index OrdQueueIter yields
    \* diff thread (make_diffs)
    dpc, dres, first_frame_pts, prev_frame_pts, d_next, ordinal_frame_number, dmsg,
    first_frame_has_transparency,
    quant_queue,
    \* quant thread (quantize_frames)
    qpc, qres, q_next, qmsg,
    remap_queue,
    \* remap thread (remap_frames)
    rpc, rres, r_next, rmsg, first_frame,
    write_queue,
    \* Writer::write on the caller's thread
    wpc, writeResult, pts_in_delay_units, n_done, increases,
    encLog,          \* calls made on the Encoder, in order
    \* history
    delivered,       \* indices OrdQueueIter has yielded, in order
    sentQ, sentR, sentW,   \* ordinals sent on each channel, in order
    recvEnds,        \* end_pts of the frames write_frames received, in order
    quantizeCalls,   \* arguments of the calls of Self::quantize, in order
    ownError,        \* the first error a stage raised by itself ("none" if none)
    \* dimensions_for_image: its arguments and its result
    image_size, resize_to, dimensions,
    \* remap_frames, pixel by pixel
    screen,          \* gif_dispose::Screen: [pixels, disposal]
    next_frame,      \* whether the look-ahead holds a frame
    remapped,        \* what Self::remap returned for the frame: [image8, pal]
    consolidated,    \* [image8, pal, transparent_index] after the palette loop
    trimmed,         \* what trim_image returned, "untrimmed" if it was not called
    gif_frame,       \* the GIFFrame built for the frame, NoFrame if none was
    was_first_frame, \* first_frame when the iteration began
    canvas           \* what a decoder shows after the GIFFrames emitted so far

inputVars == <<frames, order, abortAt, fault>>
collVars == <<cpos, cstate>>
oqVars == <<oqBuf, oqNext, delivered>>
diffVars == <<dpc, dres, first_frame_pts, prev_frame_pts, d_next, ordinal_frame_number, dmsg,
              first_frame_has_transparency>>
quantVars == <<qpc, qres, q_next, qmsg, quantizeCalls>>
remapVars == <<rpc, rres, r_next, rmsg, first_frame>>
writerVars == <<wpc, writeResult, pts_in_delay_units, n_done, increases, encLog, recvEnds>>
resizeVars == <<image_size, resize_to, dimensions>>
pixelVars == <<screen, next_frame, remapped, consolidated, trimmed, gif_frame,
               was_first_frame, canvas>>
pureVars == <<resizeVars, pixelVars>>
vars == <<inputVars, collVars, oqVars, diffVars, quantVars, remapVars, writerVars,
          quant_queue, remap_queue, write_queue, sentQ, sentR, sentW, ownError, pureVars>>

NFrames == Len(order)

\* ------------------------------------------------------------------- Init
\* the pipeline after new(settings): nothing pushed, write not yet called
PipelineInit(fs, ord, ab, flt) ==
    /\ frames = fs /\ order = ord /\ abortAt = ab /\ fault = flt
    /\ cpos = 0 /\ cstate = "alive"
    /\ oqBuf = {} /\ oqNext = 0 /\ delivered = <<>>
    /\ dpc = "unspawned" /\ dres = "none"
    /\ first_frame_pts = 0 /\ prev_frame_pts = 0 /\ d_next = None
    /\ ordinal_frame_number = 0 /\ dmsg = NoMsg
    /\ first_frame_has_transparency = FALSE
    /\ quant_queue = <<>>
    /\ qpc = "unspawned" /\ qres = "none" /\ q_next = NoMsg /\ qmsg = NoMsg
    /\ quantizeCalls = <<>>
    /\ remap_queue = <<>>
    /\ rpc = "unspawned" /\ rres = "none" /\ r_next = NoMsg /\ rmsg = NoMsg
    /\ first_frame = TRUE
    /\ write_queue = <<>>
    /\ wpc = "init" /\ writeResult = "none" /\ pts_in_delay_units = 0
    /\ n_done = 0 /\ increases = 0 /\ encLog = <<>> /\ recvEnds = <<>>
    /\ sentQ = <<>> /\ sentR = <<>> /\ sentW = <<>>
    /\ ownError = "none"

\* no image has been sized yet
ResizeIdle == image_size = <<>> /\ resize_to = <<>> /\ dimensions = <<>>

\* remap_frames has not created its Screen yet
PixelsIdle ==
    /\ screen = <<>> /\ canvas = <<>> /\ next_frame = FALSE /\ was_first_frame = FALSE
    /\ remapped = <<>> /\ consolidated = <<>> /\ trimmed = <<>> /\ gif_frame = <<>>

\* the state after new(settings)
InitWith(fs, ord, ab, flt) ==
    PipelineInit(fs, ord, ab, flt) /\ ResizeIdle /\ PixelsIdle

FirstError(e) == IF ownError = "none" THEN e ELSE ownError

\* ------------------------------------------------- OrdQueue (ordqueue.rs)
\* push blocks while the queue holds `capacity` items with ordinals greater
\* than the next-expected output ordinal
OqHasRoom == Cardinality({i \in oqBuf : i > oqNext}) < OrdQueueDepth

\* push fails once the consumer side (OrdQueueIter) has been dropped; the
\* iterator is moved into make_diffs and dropped when that thread returns
OqConsumerDropped == dpc = "done"

\* next() blocks until the next expected ordinal is available, or all
\* producers have dropped the queue and no buffered items remain
OqNextReady == oqNext \in oqBuf \/ (cstate = "dropped" /\ oqBuf = {})

\* what next() returns: the index of the item, None at end of stream
OqNextItem == IF oqNext \in oqBuf THEN oqNext ELSE None

\* the iterator after next()
OqTake ==
    /\ oqBuf' = oqBuf \ {oqNext}
    /\ oqNext' = IF oqNext \in oqBuf THEN oqNext + 1 ELSE oqNext
    /\ delivered' = IF oqNext \in oqBuf THEN Append(delivered, oqNext) ELSE delivered

\* -------------------------------------------------------------- Collector
\* Collector::add_frame_rgba(order[cpos+1], image, pts): queue.push
CollectorPush ==
    /\ cstate = "alive" /\ cpos < NFrames
    /\ OqConsumerDropped \/ OqHasRoom
    /\ cpos' = cpos + 1
    /\ oqBuf' = IF OqConsumerDropped THEN oqBuf ELSE oqBuf \cup {order[cpos + 1]}
    /\ UNCHANGED <<pureVars, inputVars, cstate, oqNext, delivered, diffVars, quantVars, remapVars,
                   writerVars, quant_queue, remap_queue, write_queue,
                   sentQ, sentR, sentW, ownError>>

\* drop(collector), after the last add_frame
CollectorDrop ==
    /\ cstate = "alive" /\ cpos = NFrames
    /\ cstate' = "dropped"
    /\ UNCHANGED <<pureVars, inputVars, cpos, oqVars, diffVars, quantVars, remapVars,
                   writerVars, quant_queue, remap_queue, write_queue,
                   sentQ, sentR, sentW, ownError>>

\* -------------------------------------------------- make_diffs: disposal
\* first_frame.pixels().any(|px| px.a < 128)
HasTransparency(image) == \E p \in DOMAIN image : image[p].a < 128

\* if n.a < curr.a { dispose = Background } over the zipped pixels of the next
\* and the current frame; dispose starts as Keep
DisposeBeforeNext(image, next) ==
    IF \E p \in DOMAIN image : next[p].a < image[p].a THEN "Background" ELSE "Keep"

DisposeOfLastKeep(has_transparency) == "Keep"

\* last frame should reset to background to avoid breaking transparent looped anims
DisposeOfLast(has_transparency) ==
    IF has_transparency THEN "Background" ELSE "Keep"

\* ------------------------------------------------------ write_with_encoder
\* Writer::write is called: the three threads are spawned, write_frames starts
WriteStart ==
    /\ wpc = "init"
    /\ wpc' = "frames"
    /\ dpc' = "first" /\ qpc' = "first" /\ rpc' = "first"
    /\ UNCHANGED <<pureVars, inputVars, collVars, oqVars, dres, first_frame_pts, prev_frame_pts,
                   d_next, ordinal_frame_number, dmsg, first_frame_has_transparency,
                   qres, q_next, qmsg, quantizeCalls, rres, r_next, rmsg, first_frame,
                   writeResult, pts_in_delay_units, n_done, increases, encLog, recvEnds,
                   quant_queue, remap_queue, write_queue, sentQ, sentR, sentW, ownError>>

\* -------------------------------------------------------------- make_diffs
\* let (first_frame, first_frame_pts) = inputs.next().transpose()?.ok_or(NoFrames)?
DiffFirst ==
    /\ dpc = "first" /\ OqNextReady
    /\ OqTake
    /\ IF OqNextItem # None
       THEN /\ first_frame_pts' = frames[OqNextItem].pts
            /\ first_frame_has_transparency' = HasTransparency(frames[OqNextItem].img)
            /\ d_next' = OqNextItem
            /\ dpc' = "loop"
            /\ UNCHANGED <<dres, ownError>>
       ELSE /\ dres' = "NoFrames" /\ dpc' = "done"
            /\ ownError' = FirstError("NoFrames")
            /\ UNCHANGED <<first_frame_pts, first_frame_has_transparency, d_next>>
    /\ UNCHANGED <<pureVars, inputVars, collVars, prev_frame_pts, ordinal_frame_number, dmsg,
                   quantVars, remapVars, writerVars, quant_queue, remap_queue, write_queue,
                   sentQ, sentR, sentW>>

NextOrdinalKept(ordinal) == ordinal

NextOrdinalByTwo(ordinal) == ordinal + 2

\* ordinal_frame_number += 1
NextOrdinal(ordinal) == ordinal + 1

DiffNeverIdentical(curr, nx) == FALSE

\* next.as_ref() == image.as_ref(): the two frames (of one size) have the same pixels
DiffIdentical(curr, nx) == frames[nx].img = frames[curr].img

\* one iteration of the while loop, with the block that gets the next element,
\* up to its continue, its return or its send

DiffLoop ==
    /\ dpc = "loop" /\ OqNextReady
    /\ OqTake
    /\ d_next' = OqNextItem
    /\ LET curr == d_next
           nx == OqNextItem
       IN IF curr = None
          THEN /\ dres' = "Ok" /\ dpc' = "done"
               /\ UNCHANGED <<prev_frame_pts, ordinal_frame_number, dmsg, ownError>>
          ELSE LET pts == frames[curr].pts - first_frame_pts
                   ord == NextOrdinal(ordinal_frame_number)
               IN /\ ordinal_frame_number' = ord
                  /\ IF nx # None /\ frames[nx].size # frames[curr].size
                     THEN /\ dres' = "WrongSize" /\ dpc' = "done"
                          /\ ownError' = FirstError("WrongSize")
                          /\ UNCHANGED <<prev_frame_pts, dmsg>>
                     ELSE IF nx # None /\ DiffIdentical(curr, nx)
                     THEN /\ prev_frame_pts' = pts
                          /\ UNCHANGED <<dpc, dres, dmsg, ownError>>
                     ELSE /\ prev_frame_pts' = pts
                          /\ dmsg' = [dispose |-> IF nx # None
                                                   THEN DisposeBeforeNext(frames[curr].img,
                                                                          frames[nx].img)
                                                   ELSE DisposeOfLast(first_frame_has_transparency),
                                      ordinal |-> ord,
                                      end_pts |-> EndPts(pts, prev_frame_pts, first_frame_pts,
                                                         nx # None,
                                                         IF nx # None THEN frames[nx].pts ELSE 0),
                                      src |-> curr]
                          /\ dpc' = "send"
                          /\ UNCHANGED <<dres, ownError>>
    /\ UNCHANGED <<pureVars, inputVars, collVars, first_frame_pts, first_frame_has_transparency,
                   quantVars, remapVars, writerVars, quant_queue, remap_queue, write_queue,
                   sentQ, sentR, sentW>>

\* quant_queue.send(DiffMessage {..})?
DiffSend ==
    /\ dpc = "send"
    /\ qpc = "done" \/ Len(quant_queue) < QuantQueueCap
    /\ IF qpc = "done"
       THEN /\ dres' = "ThreadSend" /\ dpc' = "done"
            /\ UNCHANGED <<quant_queue, sentQ>>
       ELSE /\ quant_queue' = Append(quant_queue, dmsg)
            /\ sentQ' = Append(sentQ, dmsg.ordinal)
            /\ dpc' = "loop"
            /\ UNCHANGED dres
    /\ UNCHANGED <<pureVars, inputVars, collVars, oqVars, first_frame_pts, prev_frame_pts, d_next,
                   ordinal_frame_number, dmsg, first_frame_has_transparency, quantVars, remapVars, writerVars,
                   remap_queue, write_queue, sentR, sentW, ownError>>

\* --------------------------------------------------------- quantize_frames
QuantRecvReadyNoDisconnect == quant_queue # <<>>

\* inputs.recv() returns a buffered message, or fails once the channel is
\* empty and its sender (owned by the diff thread) has been dropped
QuantRecvReady == quant_queue # <<>> \/ dpc = "done"

\* Settings::color_quality: (self.quality as u16 * 4 / 3).min(100) as u8
ColorQuality(quality) == Min((quality * 4) \div 3, 100)

\* the has_prev_frame that quantize_frames passes to quantize
HasPrevFrame(ordinal) == ordinal > 1

\* quantize: the quality ceiling given to liq.set_quality(0, quality)
QualityCeiling(has_prev_frame, quality) ==
    IF has_prev_frame THEN ColorQuality(quality) ELSE 100

\* quantize: the colours given to img.add_fixed_color
FixedColors(has_prev_frame) ==
    IF has_prev_frame THEN {Transparent} ELSE {}

\* the call Self::quantize(image, importance_map, ordinal_frame_number > 1, settings)
QuantizeCall(msg) ==
    [ordinal |-> msg.ordinal, has_prev_frame |-> HasPrevFrame(msg.ordinal)]

\* Self::quantize(..)? fails
QuantizeFails(msg) == fault.stage = "quant" /\ fault.at = msg.ordinal

\* let next_frame = inputs.recv().map_err(|_| Error::NoFrames)?
QuantFirst ==
    /\ qpc = "first" /\ QuantRecvReady
    /\ IF quant_queue # <<>>
       THEN /\ q_next' = Head(quant_queue)
            /\ quant_queue' = Tail(quant_queue)
            /\ qpc' = "loop"
            /\ UNCHANGED qres
       ELSE /\ qres' = "NoFrames" /\ qpc' = "done"
            /\ UNCHANGED <<q_next, quant_queue>>
    /\ UNCHANGED <<pureVars, inputVars, collVars, oqVars, diffVars, qmsg, quantizeCalls, remapVars,
                   writerVars, remap_queue, write_queue, sentQ, sentR, sentW, ownError>>

\* one iteration of the while loop up to its return or its send
QuantLoop ==
    /\ qpc = "loop" /\ QuantRecvReady
    /\ q_next' = IF quant_queue # <<>> THEN Head(quant_queue) ELSE NoMsg
    /\ quant_queue' = IF quant_queue # <<>> THEN Tail(quant_queue) ELSE quant_queue
    /\ quantizeCalls' = IF q_next = NoMsg THEN quantizeCalls
                         ELSE Append(quantizeCalls, QuantizeCall(q_next))
    /\ IF q_next = NoMsg
       THEN /\ qres' = "Ok" /\ qpc' = "done"
            /\ UNCHANGED <<qmsg, ownError>>
       ELSE IF QuantizeFails(q_next)
       THEN /\ qres' = "QuantizationFailed" /\ qpc' = "done"
            /\ ownError' = FirstError("QuantizationFailed")
            /\ UNCHANGED qmsg
       ELSE /\ qmsg' = q_next
            /\ qpc' = "send"
            /\ UNCHANGED <<qres, ownError>>
    /\ UNCHANGED <<pureVars, inputVars, collVars, oqVars, diffVars, remapVars, writerVars,
                   remap_queue, write_queue, sentQ, sentR, sentW>>

\* remap_queue.send(RemapMessage {..})?
QuantSend ==
    /\ qpc = "send"
    /\ rpc = "done" \/ Len(remap_queue) < RemapQueueCap
    /\ IF rpc = "done"
       THEN /\ qres' = "ThreadSend" /\ qpc' = "done"
            /\ UNCHANGED <<remap_queue, sentR>>
       ELSE /\ remap_queue' = Append(remap_queue, qmsg)
            /\ sentR' = Append(sentR, qmsg.ordinal)
            /\ qpc' = "loop"
            /\ UNCHANGED qres
    /\ UNCHANGED <<pureVars, inputVars, collVars, oqVars, diffVars, q_next, qmsg, quantizeCalls,
                   remapVars, writerVars, quant_queue, write_queue, sentQ, sentW, ownError>>

\* ------------------------------------------------------------ remap_frames
RemapRecvReady == remap_queue # <<>> \/ qpc = "done"

\* Self::remap(..)? or then_blit(..)? fails
RemapFails(msg) == fault.stage = "remap" /\ fault.at = msg.ordinal

\* trim_image returns None: every row of the remapped frame is transparent or
\* equal to the screen.  The remapped pixels come from the quantizer; the
\* input says for each frame whether that is the outcome.
TrimDropsFrame(msg, is_first, has_next) ==
    ~is_first /\ has_next /\ frames[msg.src].vanish

\* let next_frame = inputs.recv().map_err(|_| Error::NoFrames)?
RemapFirst ==
    /\ rpc = "first" /\ RemapRecvReady
    /\ IF remap_queue # <<>>
       THEN /\ r_next' = Head(remap_queue)
            /\ remap_queue' = Tail(remap_queue)
            /\ rpc' = "loop"
            /\ UNCHANGED rres
       ELSE /\ rres' = "NoFrames" /\ rpc' = "done"
            /\ UNCHANGED <<r_next, remap_queue>>
    /\ UNCHANGED <<pureVars, inputVars, collVars, oqVars, diffVars, quantVars, rmsg, first_frame,
                   writerVars, quant_queue, write_queue, sentQ, sentR, sentW, ownError>>

\* one iteration of the while loop up to its continue, its return or its send
RemapLoop ==
    /\ rpc = "loop" /\ RemapRecvReady
    /\ r_next' = IF remap_queue # <<>> THEN Head(remap_queue) ELSE NoMsg
    /\ remap_queue' = IF remap_queue # <<>> THEN Tail(remap_queue) ELSE remap_queue
    /\ IF r_next = NoMsg
       THEN /\ rres' = "Ok" /\ rpc' = "done"
            /\ UNCHANGED <<rmsg, ownError>>
       ELSE IF RemapFails(r_next)
       THEN /\ rres' = "RemapFailed" /\ rpc' = "done"
            /\ ownError' = FirstError("RemapFailed")
            /\ UNCHANGED rmsg
       ELSE IF TrimDropsFrame(r_next, first_frame, remap_queue # <<>>)
       THEN UNCHANGED <<rres, rpc, rmsg, ownError>>
       ELSE /\ rmsg' = r_next
            /\ rpc' = "send"
            /\ UNCHANGED <<rres, ownError>>
    /\ UNCHANGED <<pureVars, inputVars, collVars, oqVars, diffVars, quantVars, first_frame,
                   writerVars, quant_queue, write_queue, sentQ, sentR, sentW>>

\* the receiver of write_queue is owned by write_frames and dropped when it returns
WriteQueueReceiverDropped == wpc # "frames"

\* write_queue.send(FrameMessage {..})?; first_frame = false
RemapSend ==
    /\ rpc = "send"
    /\ WriteQueueReceiverDropped \/ Len(write_queue) < WriteQueueCap
    /\ IF WriteQueueReceiverDropped
       THEN /\ rres' = "ThreadSend" /\ rpc' = "done"
            /\ UNCHANGED <<write_queue, sentW, first_frame>>
       ELSE /\ write_queue' = Append(write_queue, rmsg)
            /\ sentW' = Append(sentW, rmsg.ordinal)
            /\ first_frame' = FALSE
            /\ rpc' = "loop"
            /\ UNCHANGED rres
    /\ UNCHANGED <<pureVars, inputVars, collVars, oqVars, diffVars, quantVars, r_next, rmsg,
                   writerVars, quant_queue, remap_queue, sentQ, sentR, ownError>>

\* ------------------------------------------------------------ write_frames
WriteRecvReady == write_queue # <<>> \/ rpc = "done"

\* enc.write_frame(..)? fails
SinkWriteFails(msg) == fault.stage = "write_frame" /\ fault.at = msg.ordinal

\* enc.finish()? fails
SinkFinishFails == fault.stage = "finish"

FrameAlwaysWritten(delay) == TRUE

\* if delay != 0 { enc.write_frame(frame, delay, settings)?; }
FrameIsWritten(delay) == delay # 0

WriteFrameCall(msg, delay) == [op |-> "write_frame", ordinal |-> msg.ordinal, delay |-> delay]
FinishCall == [op |-> "finish", ordinal |-> 0, delay |-> 0]

TicksDueOnce(ordinal) == 1

\* number of increase() calls the reporting loop makes for this frame if none aborts
TicksDue(ordinal) == IF n_done < ordinal THEN ordinal - n_done ELSE 0

\* one iteration of `for FrameMessage {..} in write_queue`, or, at the end of
\* the channel, enc.finish()? and the return of write_frames
WriteFrames ==
    /\ wpc = "frames" /\ WriteRecvReady
    /\ IF write_queue = <<>>
       THEN /\ encLog' = Append(encLog, FinishCall)
            /\ IF SinkFinishFails
               THEN wpc' = "done" /\ writeResult' = "IO"
               ELSE wpc' = "join_diff" /\ UNCHANGED writeResult
            /\ UNCHANGED <<write_queue, pts_in_delay_units, n_done, increases, recvEnds>>
       ELSE LET msg == Head(write_queue)
                delay == Delay(msg.end_pts, pts_in_delay_units)
                due == TicksDue(msg.ordinal)
                aborts == abortAt > increases /\ abortAt <= increases + due
            IN /\ write_queue' = Tail(write_queue)
               /\ recvEnds' = Append(recvEnds, msg.end_pts)
               /\ pts_in_delay_units' = pts_in_delay_units + delay
               /\ encLog' = IF FrameIsWritten(delay)
                            THEN Append(encLog, WriteFrameCall(msg, delay))
                            ELSE encLog
               /\ IF FrameIsWritten(delay) /\ SinkWriteFails(msg)
                  THEN /\ wpc' = "done" /\ writeResult' = "IO"
                       /\ UNCHANGED <<n_done, increases>>
                  ELSE IF aborts
                  THEN /\ wpc' = "done" /\ writeResult' = "Aborted"
                       /\ increases' = abortAt
                       /\ n_done' = n_done + (abortAt - increases)
                  ELSE /\ increases' = increases + due
                       /\ n_done' = n_done + due
                       /\ UNCHANGED <<wpc, writeResult>>
    /\ UNCHANGED <<pureVars, inputVars, collVars, oqVars, diffVars, quantVars, remapVars,
                   quant_queue, remap_queue, sentQ, sentR, sentW, ownError>>

\* thread.join().map_err(|_| Error::ThreadSend)??: returns the thread's error
JoinResult(res, next_pc) ==
    IF res = "Ok"
    THEN wpc' = next_pc /\ writeResult' = (IF next_pc = "done" THEN "Ok" ELSE writeResult)
    ELSE wpc' = "done" /\ writeResult' = res

JoinDiff ==
    /\ wpc = "join_diff" /\ dpc = "done"
    /\ JoinResult(dres, "join_quant")
    /\ UNCHANGED <<pureVars, inputVars, collVars, oqVars, diffVars, quantVars, remapVars,
                   pts_in_delay_units, n_done, increases, encLog, recvEnds,
                   quant_queue, remap_queue, write_queue, sentQ, sentR, sentW, ownError>>

JoinQuant ==
    /\ wpc = "join_quant" /\ qpc = "done"
    /\ JoinResult(qres, "join_remap")
    /\ UNCHANGED <<pureVars, inputVars, collVars, oqVars, diffVars, quantVars, remapVars,
                   pts_in_delay_units, n_done, increases, encLog, recvEnds,
                   quant_queue, remap_queue, write_queue, sentQ, sentR, sentW, ownError>>

JoinRemap ==
    /\ wpc = "join_remap" /\ rpc = "done"
    /\ JoinResult(rres, "done")
    /\ UNCHANGED <<pureVars, inputVars, collVars, oqVars, diffVars, quantVars, remapVars,
                   pts_in_delay_units, n_done, increases, encLog, recvEnds,
                   quant_queue, remap_queue, write_queue, sentQ, sentR, sentW, ownError>>

Next ==
    \/ CollectorPush \/ CollectorDrop \/ WriteStart
    \/ DiffFirst \/ DiffLoop \/ DiffSend
    \/ QuantFirst \/ QuantLoop \/ QuantSend
    \/ RemapFirst \/ RemapLoop \/ RemapSend
    \/ WriteFrames \/ JoinDiff \/ JoinQuant \/ JoinRemap

\* ---------------------------------------------- remap_frames, pixel by pixel
\* An indexed image (ImgVec<u8>) is the sequence of its rows, top row first,
\* each row the sequence of its palette indices; so are the pixels of the
\* Screen, with RGBA8 values.  A palette maps 0..n-1 to RGBA8.  Some(x) and
\* None of an Option are <<x>> and <<>>; transparent_index is an index or None.

AlphaBelow128(alpha) == alpha < 128

\* if p.a <= 128
AlphaIsTransparent(alpha) == alpha <= 128

KeepIndex(image8, new_index, old_index) == image8

\* image8.pixels_mut().filter(|px| **px == new_index).for_each(|px| *px = old_index)
ReplaceIndex(image8, new_index, old_index) ==
    [y \in DOMAIN image8 |->
        [x \in DOMAIN image8[y] |->
            IF image8[y][x] = new_index THEN old_index ELSE image8[y][x]]]

\* for (i, p) in image8_pal.iter_mut().enumerate() { .. }, from entry i on
RECURSIVE ConsolidateFrom(_, _, _, _)
ConsolidateFrom(i, image8, image8_pal, transparent_index) ==
    IF i \notin DOMAIN image8_pal
    THEN [image8 |-> image8, pal |-> image8_pal, transparent_index |-> transparent_index]
    ELSE IF AlphaIsTransparent(image8_pal[i].a)
    THEN IF transparent_index # None
         THEN ConsolidateFrom(i + 1, ReplaceIndex(image8, i, transparent_index),
                              [image8_pal EXCEPT ![i].a = 0], transparent_index)
         ELSE ConsolidateFrom(i + 1, image8, [image8_pal EXCEPT ![i].a = 0], i)
    ELSE ConsolidateFrom(i + 1, image8, image8_pal, transparent_index)

\* the palette loop of remap_frames, starting with transparent_index = None
Consolidate(image8, image8_pal) == ConsolidateFrom(0, image8, image8_pal, None)

\* Some(px) == transparent_index || image8_pal.get(px as usize) == Some(&bg)
PixelVanishes(px, bg, image8_pal, transparent_index) ==
    \/ px = transparent_index
    \/ px \in DOMAIN image8_pal /\ image8_pal[px] = bg

SomePixelVanishes(img_row, screen_row, image8_pal, transparent_index) ==
    \E x \in DOMAIN img_row \cap DOMAIN screen_row :
        PixelVanishes(img_row[x], screen_row[x], image8_pal, transparent_index)

\* img_row.iter().copied().zip(screen_row.iter().copied()).all(..)
RowVanishes(img_row, screen_row, image8_pal, transparent_index) ==
    \A x \in DOMAIN img_row \cap DOMAIN screen_row :
        PixelVanishes(img_row[x], screen_row[x], image8_pal, transparent_index)

\* .take_while(..).count() over a sequence of booleans
RECURSIVE TakeWhileCount(_)
TakeWhileCount(flags) ==
    IF flags = <<>> \/ ~Head(flags) THEN 0 ELSE 1 + TakeWhileCount(Tail(flags))

\* .rev()
Reverse(seq) == [i \in 1..Len(seq) |-> seq[Len(seq) + 1 - i]]

\* trim_image(image8, image8_pal, transparent_index, screen)
TrimImage(image8, image8_pal, transparent_index, screen_pixels) ==
    LET height == Len(image8)
        vanishes == [y \in 1..height |->
                        RowVanishes(image8[y], screen_pixels[y], image8_pal, transparent_index)]
        bottom == TakeWhileCount(Reverse(vanishes))
    IN IF bottom > 0 /\ bottom = height
       THEN <<>>
       ELSE LET top == TakeWhileCount(SubSeq(vanishes, 1, height - bottom))
            IN <<[left |-> 0, top |-> top,
                  image8 |-> SubSeq(image8, top + 1, height - bottom)]>>

\* the area a frame covers (left and top count from 0, x and y from 1)
InArea(x, y, left, top, width, height) ==
    x > left /\ x <= left + width /\ y > top /\ y <= top + height

\* gif_dispose::Screen::new(width, height, RGBA8::new(0, 0, 0, 0), None)
ScreenNew(width, height) ==
    [pixels |-> [y \in 1..height |-> [x \in 1..width |-> Transparent]],
     disposal |-> [method |-> "Keep", left |-> 0, top |-> 0, width |-> 0, height |-> 0]]

\* screen.dispose(): the pixels with the disposal of the frame blitted last
\* applied; Background restores its area to the Screen's background colour
ScreenAfterDispose(scr) ==
    [y \in DOMAIN scr.pixels |->
        [x \in DOMAIN scr.pixels[y] |->
            IF /\ scr.disposal.method = "Background"
               /\ InArea(x, y, scr.disposal.left, scr.disposal.top,
                         scr.disposal.width, scr.disposal.height)
            THEN Transparent
            ELSE scr.pixels[y][x]]]

\* screen_after_dispose.then_blit(Some(pal), method, left, top, image, transparent):
\* the Screen afterwards
ThenBlit(pixels, pal, method, left, top, image, transparent) ==
    [pixels |->
        [y \in DOMAIN pixels |->
            [x \in DOMAIN pixels[y] |->
                IF /\ InArea(x, y, left, top, Len(image[1]), Len(image))
                   /\ image[y - top][x - left] # transparent
                THEN pal[image[y - top][x - left]]
                ELSE pixels[y][x]]],
     disposal |-> [method |-> method, left |-> left, top |-> top,
                   width |-> Len(image[1]), height |-> Len(image)]]

\* what an animated-image decoder shows and the placement and disposal of the
\* frame it drew last, before any frame: a fully transparent canvas
DecoderNew(width, height) ==
    [pixels |-> [y \in 1..height |-> [x \in 1..width |-> Transparent]],
     last |-> <<>>]

\* the decoder renders one more frame: the area of the frame drawn before is
\* restored to the transparent background if that frame's disposal is
\* Background; then the pixels of the frame other than its transparent index
\* are drawn at (left, top) in the colours of its palette
DecoderShow(cv, frame) ==
    LET restored ==
            [y \in DOMAIN cv.pixels |->
                [x \in DOMAIN cv.pixels[y] |->
                    IF /\ cv.last # <<>>
                       /\ cv.last[1].dispose = "Background"
                       /\ InArea(x, y, cv.last[1].left, cv.last[1].top,
                                 cv.last[1].width, cv.last[1].height)
                    THEN Transparent
                    ELSE cv.pixels[y][x]]]
    IN [pixels |->
            [y \in DOMAIN restored |->
                [x \in DOMAIN restored[y] |->
                    IF /\ InArea(x, y, frame.left, frame.top,
                                 Len(frame.image[1]), Len(frame.image))
                       /\ frame.image[y - frame.top][x - frame.left] # frame.transparent_index
                    THEN frame.pal[frame.image[y - frame.top][x - frame.left]]
                    ELSE restored[y][x]]],
        last |-> <<[dispose |-> frame.dispose, left |-> frame.left, top |-> frame.top,
                    width |-> Len(frame.image[1]), height |-> Len(frame.image)]>>]

BlitArgsAtOrigin(frame) ==
    [pal |-> frame.pal, method |-> frame.dispose, left |-> 0, top |-> 0,
     image |-> frame.image, transparent |-> frame.transparent_index]

\* the arguments of then_blit(Some(&frame.pal), dispose, left, top as _,
\* frame.image.as_ref(), transparent_index)
BlitArgs(frame) ==
    [pal |-> frame.pal, method |-> frame.dispose, left |-> frame.left, top |-> frame.top,
     image |-> frame.image, transparent |-> frame.transparent_index]

MayTrimAlways(is_first, has_next) == TRUE

\* if !first_frame && next_frame.is_some(): must keep first and last frame
MayTrim(is_first, has_next) == ~is_first /\ has_next

\* what Self::remap can return for a frame of 1 x 3 pixels: any image over a
\* palette of two entries, each opaque, half transparent or fully transparent
PaletteColours == {RGBA("r", 255), RGBA("s", 128), Transparent}
RemapResults ==
    [image8 : [1..3 -> [1..1 -> 0..1]], pal : [0..1 -> PaletteColours]]

\* one iteration of the while loop of remap_frames on the pixels, none of its
\* calls failing and the writer taking every frame: from screen.dispose() to
\* its continue or to first_frame = false
RemapFramePixels ==
    /\ next_frame
    /\ \E raw \in RemapResults : \E dispose \in {"Keep", "Background"} :
       \E has_next \in BOOLEAN :
       \E screen_after_dispose \in {ScreenAfterDispose(screen)} :
       \E c \in {Consolidate(raw.image8, raw.pal)} :
       \E t \in {IF MayTrim(first_frame, has_next)
                  THEN TrimImage(c.image8, c.pal, c.transparent_index, screen_after_dispose)
                  ELSE <<[left |-> 0, top |-> 0, image8 |-> c.image8]>>} :
        /\ next_frame' = has_next
        /\ was_first_frame' = first_frame
        /\ remapped' = <<raw>>
        /\ consolidated' = <<c>>
        /\ trimmed' = IF MayTrim(first_frame, has_next) THEN <<t>> ELSE <<>>
        /\ IF t = <<>>
           THEN /\ gif_frame' = <<>>
                /\ UNCHANGED <<screen, canvas, first_frame>>
           ELSE \E frame \in {[left |-> t[1].left, top |-> t[1].top,
                                screen_width |-> Len(screen.pixels[1]),
                                screen_height |-> Len(screen.pixels),
                                image |-> t[1].image8, pal |-> c.pal,
                                dispose |-> dispose,
                                transparent_index |-> c.transparent_index]} :
                \E blit \in {BlitArgs(frame)} :
                    /\ gif_frame' = <<frame>>
                    /\ screen' = ThenBlit(screen_after_dispose, blit.pal, blit.method,
                                          blit.left, blit.top, blit.image,
                                          blit.transparent)
                    /\ canvas' = DecoderShow(canvas, frame)
                    /\ first_frame' = FALSE
    /\ UNCHANGED <<resizeVars, inputVars, collVars, oqVars, diffVars, quantVars,
                   rpc, rres, r_next, rmsg, writerVars, quant_queue, remap_queue,
                   write_queue, sentQ, sentR, sentW, ownError>>

\* trim_image applied to a consolidated frame and the pixels of a Screen
TrimImageCall ==
    /\ trimmed = <<>>
    /\ trimmed' = <<TrimImage(consolidated[1].image8, consolidated[1].pal,
                              consolidated[1].transparent_index,
                              ScreenAfterDispose(screen))>>
    /\ UNCHANGED <<screen, next_frame, remapped, consolidated, gif_frame, was_first_frame,
                   canvas, resizeVars, inputVars, collVars, oqVars, diffVars, quantVars,
                   remapVars, writerVars, quant_queue, remap_queue, write_queue,
                   sentQ, sentR, sentW, ownError>>

\* ----------------------------------------------------------------- inputs
\* two images of one opaque pixel each
Images == {<<RGBA("a", 255)>>, <<RGBA("b", 255)>>}
NoFault == [stage |-> "none", at |-> 0]

\* the pushes in index order
InOrder(n) == [i \in 1..n |-> i - 1]

\* every order in which the indices 0..n-1 can be pushed, each once
PushOrders(n) ==
    {p \in [1..n -> 0..n - 1] : \A i, j \in 1..n : i # j => p[i] # p[j]}

\* the frames whose remapped pixels may all equal the screen: any but the
\* first and the last index (remap_frames keeps its first and last frame)
Inner(n) == 1..n - 2

\* frames at 0 s, 1 s, 2 s, ..: every choice of pixels and of the frames that
\* trimming finds empty; frame k - 1 has another size than the rest (k = 0: none)
FramesAtOneFps(n, k) ==
    {[i \in 0..n - 1 |-> [img |-> im[i], size |-> IF i = k - 1 THEN 2 ELSE 1,
                          pts |-> i * TicksPerSecond, vanish |-> i \in van]] :
        im \in [0..n - 1 -> Images], van \in SUBSET Inner(n)}

\* one library call that fails: quantize for the frame with ordinal `at`, remap
\* or write_frame for it, or finish
Faults(n) ==
    {NoFault}
    \cup {[stage |-> s, at |-> k] : s \in {"quant", "remap", "write_frame"}, k \in 1..n}
    \cup {[stage |-> "finish", at |-> 0]}

\* ----------------------------------------------------------- specifications
\* Spec: frames pushed in index order; at most one of: a frame of the wrong
\* size, a failing library call, a progress reporter that returns false
Init ==
    \E n \in 0..MaxFrames : \E k \in 0..n : \E fs \in FramesAtOneFps(n, k) :
    \E ab \in 0..n : \E flt \in Faults(n) :
        /\ (IF k = 0 THEN 0 ELSE 1) + (IF ab = 0 THEN 0 ELSE 1)
              + (IF flt = NoFault THEN 0 ELSE 1) <= 1
        /\ InitWith(fs, InOrder(n), ab, flt)

Spec == Init /\ [][Next]_vars

\* SpecOrder: the indices pushed in every order, no failure
InitOrder ==
    \E n \in 0..MaxFrames : \E fs \in FramesAtOneFps(n, 0) : \E ord \in PushOrders(n) :
        InitWith(fs, ord, 0, NoFault)

SpecOrder == InitOrder /\ [][Next]_vars

\* SpecTiming: frames pushed in index order, no failure; every choice of the
\* first timestamp and of the gaps between timestamps (in ticks of 1/8 s):
\* decreasing, equal, 0.125 s, 1 s and 300.125 s apart
FirstPts == {0, 4, 2404}
Gaps == {-8, 0, 1, 8, 2401}

RECURSIVE PtsFrom(_, _, _)
PtsFrom(first, gaps, i) == IF i = 0 THEN first ELSE PtsFrom(first, gaps, i - 1) + gaps[i]

TimedFrames(n) ==
    {[i \in 0..n - 1 |-> [img |-> im[i], size |-> 1, pts |-> PtsFrom(f, g, i),
                          vanish |-> i \in van]] :
        im \in [0..n - 1 -> Images], van \in SUBSET Inner(n),
        f \in FirstPts, g \in [1..n - 1 -> Gaps]}

InitTiming ==
    \E n \in 0..MaxFrames : \E fs \in TimedFrames(n) :
        InitWith(fs, InOrder(n), 0, NoFault)

SpecTiming == InitTiming /\ [][Next]_vars

\* SpecLive: N >= 1 frames of one size pushed in index order at 1 fps, each
\* differing from its successor, no failure; every thread that can take a
\* step eventually takes one (the threads are OS threads)
DistinctFrames(n) ==
    [i \in 0..n - 1 |-> [img |-> <<RGBA(IF i % 2 = 0 THEN "a" ELSE "b", 255)>>, size |-> 1,
                         pts |-> i * TicksPerSecond, vanish |-> FALSE]]

InitLive ==
    \E n \in 1..MaxLiveFrames : InitWith(DistinctFrames(n), InOrder(n), 0, NoFault)

CollectorThread == CollectorPush \/ CollectorDrop
DiffThread == DiffFirst \/ DiffLoop \/ DiffSend
QuantThread == QuantFirst \/ QuantLoop \/ QuantSend
RemapThread == RemapFirst \/ RemapLoop \/ RemapSend
WriterThread == WriteStart \/ WriteFrames \/ JoinDiff \/ JoinQuant \/ JoinRemap

SpecLive ==
    /\ InitLive /\ [][Next]_vars
    /\ WF_vars(CollectorThread) /\ WF_vars(DiffThread) /\ WF_vars(QuantThread)
    /\ WF_vars(RemapThread) /\ WF_vars(WriterThread)

\* SpecQueue: more frames than the input queue holds, pushed in every order
InitQueue ==
    \E n \in 0..MaxQueueFrames : \E ord \in PushOrders(n) :
        InitWith(DistinctFrames(n), ord, 0, NoFault)

SpecQueue == InitQueue /\ [][Next]_vars

\* ------------------------------------------------------- derived histories
Writes == SelectSeq(encLog, LAMBDA c : c.op = "write_frame")
WrittenOrdinals == [i \in 1..Len(Writes) |-> Writes[i].ordinal]
WrittenDelays == [i \in 1..Len(Writes) |-> Writes[i].delay]
Finishes == SelectSeq(encLog, LAMBDA c : c.op = "finish")

WriteReturned == writeResult # "none"

\* --------------------------------------------------------------------- C1
\* C1: with unique contiguous indices pushed in any order, the diff stage
\* receives the frames in index order, and the ordinals sent on each channel
\* (diff->quant, quant->remap, remap->writer) and passed to write_frame are
\* strictly increasing.
OrdinalsIncreaseAtEveryStage ==
    /\ delivered = InOrder(Len(delivered))
    /\ StrictlyIncreasing(sentQ)
    /\ StrictlyIncreasing(sentR)
    /\ StrictlyIncreasing(sentW)
    /\ StrictlyIncreasing(WrittenOrdinals)

\* a run that pushed the indices out of order and wrote three frames
OutOfOrderPushesWritten ==
    /\ order # InOrder(NFrames)
    /\ order[1] # 0
    /\ Len(WrittenOrdinals) >= 3
    /\ Len(sentQ) >= 3 /\ Len(sentR) >= 3 /\ Len(sentW) >= 3

\* --------------------------------------------------------------------- C2
\* C2: every delay passed to write_frame is at least 1 and at most 30000,
\* whatever end_pts the writer receives.
DelaysWithinRange ==
    \A i \in 1..Len(WrittenDelays) : WrittenDelays[i] >= 1 /\ WrittenDelays[i] <= MaxDelay

\* a run in which one frame was written with the delay capped and a later
\* frame, whose end_pts lies before the time already written, was skipped
CappedAndSkippedFrames ==
    /\ \E i \in 1..Len(WrittenDelays) : WrittenDelays[i] = MaxDelay
    /\ Len(recvEnds) > Len(Writes)
    /\ \E i \in 1..Len(recvEnds) : recvEnds[i] < 0
    /\ wpc = "done"

\* --------------------------------------------------------------------- C3
RECURSIVE MaxOfSeq(_)
MaxOfSeq(s) ==
    IF s = <<>> THEN 0
    ELSE LET m == MaxOfSeq(Tail(s)) IN IF Head(s) > m THEN Head(s) ELSE m

ReceivedTargets == [i \in 1..Len(recvEnds) |-> RoundToDelayUnits(recvEnds[i])]

\* C3 as claimed: at the end of a run the delays passed to write_frame sum to
\* at most round(100 * end_pts) of the last frame the writer received.
SumAtMostLastEndPts ==
    (wpc = "done" /\ recvEnds # <<>>) =>
        SumSeq(WrittenDelays) <= RoundToDelayUnits(recvEnds[Len(recvEnds)])

\* C3 amended: the delays passed to write_frame sum to at most the largest
\* round(100 * end_pts) among the frames the writer has received.
SumAtMostLargestEndPts ==
    /\ SumSeq(WrittenDelays) <= MaxOfSeq(ReceivedTargets)
    /\ SumSeq(WrittenDelays) = pts_in_delay_units

\* a finished run whose timestamps went back: the sum exceeds the last end_pts
SumExceedsLastEndPts ==
    /\ wpc = "done" /\ Len(recvEnds) >= 2
    /\ SumSeq(WrittenDelays) > RoundToDelayUnits(recvEnds[Len(recvEnds)])
    /\ SumSeq(WrittenDelays) = MaxOfSeq(ReceivedTargets)

\* --------------------------------------------------------------------- C4
\* N >= 2 frames with the same pixels at 0 s, 1 s, .., N-1 s
IdenticalFramesAtOneFps ==
    /\ NFrames >= 2
    /\ \A i \in 0..NFrames - 1 :
          frames[i].img = frames[0].img /\ frames[i].pts = i * TicksPerSecond

\* C4 as claimed: N identical frames at 1 fps give one write_frame call with
\* delay 100 * (N - 1), the span from the first to the last pts.
DedupDelayIsFirstToLast ==
    (writeResult = "Ok" /\ IdenticalFramesAtOneFps) =>
        /\ Len(Writes) = 1
        /\ Writes[1].delay = DelayUnitsPerSecond * (NFrames - 1)

\* C4 amended: N identical frames at 1 fps give one write_frame call, for the
\* last of them, with delay 100 * N: the last frame is shown for one more
\* period (steady frame rate), so the delay spans first pts to last pts + 1 s.
DedupDelayIsWholeDuration ==
    (writeResult = "Ok" /\ IdenticalFramesAtOneFps) =>
        /\ Len(Writes) = 1
        /\ Writes[1].delay = DelayUnitsPerSecond * NFrames
        /\ Writes[1].ordinal = NFrames

\* three identical frames at 0 s, 1 s, 2 s went through: one call, delay 300
ThreeIdenticalFramesWritten ==
    /\ writeResult = "Ok" /\ IdenticalFramesAtOneFps /\ NFrames = 3
    /\ WrittenDelays = <<300>>

\* --------------------------------------------------------------------- C5
\* the first pts F is over 0.01 s; the pts are whole hundredths and strictly
\* increasing; F and every gap are under 300 s
ShiftedIncreasingPts ==
    /\ NFrames >= 1
    /\ FirstPtsShifts(frames[0].pts)
    /\ frames[0].pts * DelayUnitsPerSecond < MaxDelay * TicksPerSecond
    /\ \A i \in 0..NFrames - 1 : frames[i].pts % 2 = 0
    /\ \A i \in 0..NFrames - 2 :
          /\ frames[i].pts < frames[i + 1].pts
          /\ (frames[i + 1].pts - frames[i].pts) * DelayUnitsPerSecond
                < MaxDelay * TicksPerSecond

LastDelayIsFirstPts ==
    /\ Writes # <<>>
    /\ Writes[Len(Writes)].delay = RoundToDelayUnits(frames[0].pts)
    /\ SumSeq(WrittenDelays) = RoundToDelayUnits(frames[NFrames - 1].pts)

\* C5 as claimed: with F > 0.01 s and increasing pts the last delay written is
\* F and the delays sum to 100 * (pts of the last input frame).
FirstPtsIsLastDelay ==
    (writeResult = "Ok" /\ ShiftedIncreasingPts) => LastDelayIsFirstPts

\* C5 amended: the same, when every input frame is passed to write_frame
\* (none is skipped as identical to its successor, none dropped by trimming).
FirstPtsIsLastDelayWhenAllWritten ==
    (writeResult = "Ok" /\ ShiftedIncreasingPts /\ Len(Writes) = NFrames)
        => LastDelayIsFirstPts

\* frames at 0.5 s, 1.5 s, 2.5 s, all written: delays 100, 100 and 50
ShiftedFramesAllWritten ==
    /\ writeResult = "Ok" /\ ShiftedIncreasingPts /\ NFrames = 3
    /\ frames[0].pts = 4
    /\ WrittenDelays = <<100, 100, 50>>

\* --------------------------------------------------------------------- C6
\* C6: write does not return, with any result, before the Collector is dropped.
WriteReturnsAfterCollectorDrop == WriteReturned => cstate = "dropped"

\* --------------------------------------------------------------------- C7
\* some thread can take a step, or write has returned and every thread is done
NoThreadBlockedForever ==
    \/ ENABLED Next
    \/ (WriteReturned /\ dpc = "done" /\ qpc = "done" /\ rpc = "done"
        /\ cstate = "dropped")

\* once write has returned Ok: finish() was called once, as the last call
FinishOnceAfterLastWrite ==
    writeResult = "Ok" =>
        /\ Len(Finishes) = 1
        /\ encLog[Len(encLog)].op = "finish"
        /\ Len(Writes) = Len(encLog) - 1
        /\ Len(recvEnds) = NFrames

\* C7: N >= 1 same-sized frames are added in index order and the Collector is
\* dropped, the reporter never aborts and the sink never fails: no state has
\* every thread blocked, write eventually returns Ok, and by then finish()
\* has been called exactly once, after the last write_frame.
InOrderRunTerminatesOk ==
    /\ [](NoThreadBlockedForever /\ FinishOnceAfterLastWrite
          /\ (WriteReturned => writeResult = "Ok"))
    /\ <>(writeResult = "Ok")

\* a run of more frames than the diff->quant and remap->writer channels hold
\* together returned Ok, every frame written before the one finish() call
LongRunReturnedOk ==
    /\ writeResult = "Ok"
    /\ NFrames > QuantQueueCap + WriteQueueCap
    /\ Len(Writes) = NFrames
    /\ encLog[Len(encLog)].op = "finish"

\* --------------------------------------------------------------------- C8
\* C8: whatever the order of the pushes, no add_frame call blocks forever:
\* while a frame is still to be pushed, some thread can take a step (the
\* push itself, or one that will unblock it).
NoPushBlocksForever == (cpos < NFrames) => ENABLED Next

\* --------------------------------------------------------------------- C9
\* increase() has returned false
ReporterAborted == abortAt # 0 /\ increases >= abortAt

\* C9: once increase() has returned false, write has returned Aborted, no
\* write_frame or finish call follows, and the diff, quant and remap threads
\* have terminated by the time write returns.
AbortJoinsAllThreads ==
    ReporterAborted =>
        /\ writeResult = "Aborted"
        /\ increases = abortAt
        /\ Finishes = <<>>
        /\ dpc = "done" /\ qpc = "done" /\ rpc = "done"

\* -------------------------------------------------------------------- C10
\* the reporter never aborts and the sink never fails
OnlyStagesFail == abortAt = 0 /\ fault.stage \in {"none", "quant", "remap"}

\* C10: when one stage fails with its own error (NoFrames or WrongSize in
\* diff, QuantizationFailed in quant, a remap error in remap), write returns
\* that error and never the ThreadSend error of an upstream stage.
WriteReturnsOriginalError ==
    (OnlyStagesFail /\ WriteReturned /\ ownError # "none") => writeResult = ownError

\* -------------------------------------------------------------------- C14
\* the DiffMessages sent or about to be sent that quantize_frames has not taken
DiffMessagesPending ==
    {quant_queue[i] : i \in 1..Len(quant_queue)}
        \cup (IF dpc = "send" THEN {dmsg} ELSE {})

\* C14 as stated: the m-th DiffMessage sent has ordinal m.
OrdinalsContiguousFromOne ==
    \A m \in 1..Len(sentQ) : sentQ[m] = m

\* C14: the ordinal of a DiffMessage is the 1-based position of its frame in
\* the input, duplicates skipped before it included; so the m-th DiffMessage
\* sent has an ordinal of at least m, and ordinals increase strictly.
OrdinalIsInputPosition ==
    /\ \A msg \in DiffMessagesPending : msg.ordinal = msg.src + 1
    /\ \A m \in 1..Len(sentQ) : sentQ[m] >= m
    /\ StrictlyIncreasing(sentQ)

\* a leading duplicate was skipped: the first DiffMessage sent has ordinal 2
\* and the next one ordinal 3
LeadingDuplicateSkipped ==
    /\ Len(sentQ) = 2 /\ sentQ[1] = 2 /\ sentQ[2] = 3
    /\ frames[0].img = frames[1].img

\* -------------------------------------------------------------------- C15
\* the values Settings.quality can take (1-100)
Qualities == 1..100

\* C15: the first call of quantize has the quality ceiling 100 and no fixed
\* colour, every later call has the ceiling color_quality and the fixed colour
\* RGBA(0,0,0,0), whatever the quality setting.
FirstQuantizeCallIsUndegraded ==
    \A i \in 1..Len(quantizeCalls) : \A quality \in Qualities :
        LET call == quantizeCalls[i]
        IN /\ QualityCeiling(call.has_prev_frame, quality)
                  = (IF i = 1 THEN 100 ELSE ColorQuality(quality))
           /\ FixedColors(call.has_prev_frame)
                  = (IF i = 1 THEN {} ELSE {Transparent})

\* -------------------------------------------------------------------- C19
\* SpecDispose: frames of two pixels pushed in index order at 1 fps, no
\* failure; each pixel opaque in one of two colours or transparent (the
\* Collector has made alpha binary)
BinaryAlphaPixels == {RGBA("a", 255), RGBA("b", 255), RGBA("a", 0)}

TwoPixelFrames(n) ==
    {[i \in 0..n - 1 |-> [img |-> im[i], size |-> 1, pts |-> i * TicksPerSecond,
                          vanish |-> FALSE]] :
        im \in [0..n - 1 -> [1..2 -> BinaryAlphaPixels]]}

InitDispose ==
    \E n \in 0..MaxFrames : \E fs \in TwoPixelFrames(n) :
        InitWith(fs, InOrder(n), 0, NoFault)

SpecDispose == InitDispose /\ [][Next]_vars

\* C19: every DiffMessage has disposal Keep or Background; that of a frame
\* with a following input frame is Background iff some pixel of the following
\* frame has a smaller alpha than the same pixel of the frame; that of the
\* final frame is Background iff the first input frame has a pixel of alpha
\* below 128.
DisposalFollowsAlpha ==
    \A msg \in DiffMessagesPending :
        LET i == msg.src
        IN /\ msg.dispose \in {"Keep", "Background"}
           /\ IF i + 1 < NFrames
              THEN msg.dispose = "Background"
                       <=> \E p \in 1..2 : frames[i + 1].img[p].a < frames[i].img[p].a
              ELSE msg.dispose = "Background"
                       <=> \E p \in 1..2 : frames[0].img[p].a < 128

\* the diff stage has sent a frame that the next frame makes more transparent
\* and the final frame of an input whose first frame has a transparent pixel,
\* both with disposal Background, and a frame with disposal Keep
BothDisposalsSent ==
    \E m1, m2, m3 \in DiffMessagesPending :
        /\ m1.src + 1 < NFrames /\ m1.dispose = "Background"
        /\ m2.src + 1 = NFrames /\ m2.dispose = "Background"
        /\ m3.dispose = "Keep"

\* -------------------------------------------------------------------- C20
\* the ordinal of the frame write_frames received last
LastReceivedOrdinal == sentW[Len(recvEnds)]

\* C20: once write_frames has handled a frame with ordinal k, no increase()
\* having returned false and no sink call having failed, increase() has been
\* called exactly k times; when write returns Ok it has been called once per
\* frame added to the Collector.
IncreaseCalledOncePerInputFrame ==
    /\ (Len(recvEnds) > 0 /\ writeResult \notin {"Aborted", "IO"})
           => increases = LastReceivedOrdinal /\ n_done = LastReceivedOrdinal
    /\ writeResult = "Ok" => increases = NFrames

\* a run of three frames returned Ok: the second frame was dropped by
\* trimming, one of the other two had a zero delay and was not written
SkippedFramesWereCounted ==
    /\ writeResult = "Ok" /\ NFrames = 3 /\ increases = 3
    /\ Len(sentQ) = 3 /\ Len(sentW) = 2 /\ Len(Writes) = 1

\* -------------------------------------------------------------------- C13
\* SpecResize: dimensions_for_image applied to one image size and one setting;
\* sizes around the 800x600 area and small ones, limits below and above them
ImageWidths == {1, 2, 3, 5, 7, 400, 799, 800, 801, 1600}
ImageHeights == {1, 2, 3, 5, 600, 601, 1200}
SizeLimits == {None, 1, 2, 3, 500, 2000}

InitResize ==
    /\ PipelineInit(<<>>, <<>>, 0, NoFault) /\ PixelsIdle
    /\ image_size \in ImageWidths \X ImageHeights
    /\ resize_to \in SizeLimits \X SizeLimits
    /\ dimensions = <<>>

\* resized_binary_alpha: let (width, height) = dimensions_for_image(..)
DimensionsCall ==
    /\ dimensions = <<>>
    /\ dimensions' = DimensionsForImage(image_size, resize_to)
    /\ UNCHANGED <<image_size, resize_to, pixelVars, inputVars, collVars, oqVars, diffVars,
                   quantVars, remapVars, writerVars, quant_queue, remap_queue, write_queue,
                   sentQ, sentR, sentW, ownError>>

NextResize == DimensionsCall

SpecResize == InitResize /\ [][NextResize]_vars

\* C13 as stated: with no limit the size is unchanged up to an area of
\* 800*600 and otherwise divided by the quotient rounded up; with one limit
\* the other side is scaled and rounded to the nearest integer.
DimensionsFollowRoundedTable ==
    dimensions # <<>> => dimensions = DimensionsRounded(image_size, resize_to)

\* C13: the result is the table with every division truncated: with no limit
\* the size is unchanged below an area of 800*600 and otherwise both sides are
\* divided by 1 + the number of whole 800*600 areas; with both limits each
\* side is the smaller of side and limit; with one limit that side is the
\* smaller of side and limit and the other side is the largest integer not
\* above the exact proportional value.
DimensionsFollowTruncatedTable ==
    dimensions # <<>> =>
        LET w == image_size[1]
            h == image_size[2]
            W == resize_to[1]
            H == resize_to[2]
            w2 == dimensions[1]
            h2 == dimensions[2]
            Floor(q, a, b) == q * b <= a /\ a < (q + 1) * b
        IN IF W = None /\ H = None
           THEN IF w * h < 800 * 600 THEN w2 = w /\ h2 = h
                ELSE \E f \in 2..(w * h) :
                        /\ Floor(f - 1, w * h, 800 * 600)
                        /\ Floor(w2, w, f) /\ Floor(h2, h, f)
           ELSE IF W # None /\ H # None
           THEN w2 = Min(W, w) /\ h2 = Min(H, h)
           ELSE IF W # None
           THEN w2 = Min(W, w) /\ Floor(h2, h * w2, w)
           ELSE h2 = Min(H, h) /\ Floor(w2, w * h2, h)

\* an 800x600 image with no limit is halved, and a 3x5 image limited to
\* width 1 gets height 1, not 2
TruncationShows ==
    \/ image_size = <<800, 600>> /\ resize_to = <<None, None>> /\ dimensions = <<400, 300>>
    \/ image_size = <<3, 5>> /\ resize_to = <<1, None>> /\ dimensions = <<1, 1>>

\* ------------------------------------------------ SpecRemap and SpecTrim
\* SpecRemap: remap_frames has received its first frame and created the
\* Screen of 1 x 3 pixels; every sequence of results of Self::remap, of
\* disposals and of look-aheads
InitRemap ==
    /\ PipelineInit(<<>>, <<>>, 0, NoFault) /\ ResizeIdle
    /\ screen = ScreenNew(1, 3) /\ canvas = DecoderNew(1, 3)
    /\ next_frame = TRUE /\ was_first_frame = FALSE
    /\ remapped = <<>> /\ consolidated = <<>> /\ trimmed = <<>> /\ gif_frame = <<>>

NextRemap == RemapFramePixels

SpecRemap == InitRemap /\ [][NextRemap]_vars

\* SpecTrim: trim_image applied once to a frame of 2 x 3 pixels: every
\* consolidated result of Self::remap over a palette of two entries, every
\* Screen whose pixels are transparent or opaque
TrimInputs ==
    [image8 : [1..3 -> [1..2 -> 0..1]],
     pal : [0..1 -> PaletteColours \cup {RGBA("g", 255)}]]
TrimScreens == [1..3 -> [1..2 -> {Transparent, RGBA("r", 255)}]]

InitTrim ==
    /\ PipelineInit(<<>>, <<>>, 0, NoFault) /\ ResizeIdle
    /\ \E raw \in TrimInputs : \E pixels \in TrimScreens :
        /\ remapped = <<raw>>
        /\ consolidated = <<Consolidate(raw.image8, raw.pal)>>
        /\ screen = [ScreenNew(2, 3) EXCEPT !.pixels = pixels]
    /\ canvas = <<>> /\ next_frame = TRUE /\ was_first_frame = FALSE
    /\ trimmed = <<>> /\ gif_frame = <<>>

NextTrim == TrimImageCall

SpecTrim == InitTrim /\ [][NextTrim]_vars

PaletteHasOneTransparentEntry ==
    gif_frame # <<>> =>
        LET frame == gif_frame[1]
            zero == {i \in DOMAIN frame.pal : frame.pal[i].a = 0}
        IN /\ Cardinality(zero) <= 1
           /\ zero \subseteq {frame.transparent_index}
           /\ \A i \in DOMAIN frame.pal \ zero : frame.pal[i].a > 128

\* C12: in the palette of an emitted frame every entry that Self::remap
\* returned with alpha <= 128 has alpha 0 and its colour unchanged, every
\* other entry is unchanged with alpha > 128; transparent_index is None iff no
\* entry has alpha 0, else it is an entry of alpha 0 and the only such entry
\* that pixels of the frame refer to.
PaletteTransparencyConsolidated ==
    gif_frame # <<>> =>
        LET frame == gif_frame[1]
            raw == remapped[1].pal
            zero == {i \in DOMAIN frame.pal : frame.pal[i].a = 0}
        IN /\ DOMAIN frame.pal = DOMAIN raw
           /\ \A i \in DOMAIN raw :
                IF raw[i].a <= 128
                THEN frame.pal[i] = RGBA(raw[i].rgb, 0)
                ELSE frame.pal[i] = raw[i] /\ frame.pal[i].a > 128
           /\ frame.transparent_index = None <=> zero = {}
           /\ frame.transparent_index # None => frame.transparent_index \in zero
           /\ \A y \in DOMAIN frame.image : \A x \in DOMAIN frame.image[y] :
                frame.image[y][x] \in zero => frame.image[y][x] = frame.transparent_index

\* a frame was emitted whose palette has two entries of alpha 0
TwoTransparentEntriesEmitted ==
    /\ gif_frame # <<>>
    /\ gif_frame[1].pal[0].a = 0 /\ gif_frame[1].pal[1].a = 0
    /\ remapped[1].pal[1].a = 128

\* -------------------------------------------------------------------- C16
\* C16: after the palette loop the palette has 1 to 256 entries; every index
\* that some pixel uses is transparent_index or has alpha > 128; and
\* transparent_index is the smallest index whose entry Self::remap returned
\* with alpha <= 128, None if there is no such entry.
PaletteAssertionsHold ==
    consolidated # <<>> =>
        LET c == consolidated[1]
            raw == remapped[1].pal
            low == {i \in DOMAIN raw : raw[i].a <= 128}
            used == {c.image8[y][x] : y \in DOMAIN c.image8, x \in DOMAIN c.image8[1]}
        IN /\ Cardinality(DOMAIN c.pal) \in 1..256
           /\ \A idx \in DOMAIN c.pal :
                idx = c.transparent_index \/ c.pal[idx].a > 128 \/ idx \notin used
           /\ IF low = {} THEN c.transparent_index = None
              ELSE c.transparent_index \in low /\ \A i \in low : c.transparent_index <= i

\* Self::remap returned two entries of alpha <= 128 and pixels that use the
\* second one; the loop has redirected them to the first
SecondTransparentIndexRedirected ==
    /\ consolidated # <<>>
    /\ remapped[1].pal[0].a <= 128 /\ remapped[1].pal[1].a <= 128
    /\ remapped[1].image8[2][1] = 1 /\ consolidated[1].image8[2][1] = 0

\* -------------------------------------------------------------------- C18
\* C18: the frame processed while first_frame holds and the frame processed
\* when the look-ahead is empty are not given to trim_image and not dropped:
\* each becomes a GIFFrame with left = 0, top = 0 and all rows of the Screen.
FirstAndLastFrameKept ==
    (remapped # <<>> /\ (was_first_frame \/ ~next_frame)) =>
        /\ trimmed = <<>>
        /\ gif_frame # <<>>
        /\ gif_frame[1].left = 0 /\ gif_frame[1].top = 0
        /\ Len(gif_frame[1].image) = Len(screen.pixels)
        /\ gif_frame[1].image = consolidated[1].image8

\* the last frame, not the first, was emitted in full although all its pixels
\* are transparent
TransparentLastFrameEmitted ==
    /\ remapped # <<>> /\ ~was_first_frame /\ ~next_frame
    /\ gif_frame # <<>>
    /\ \A y \in 1..3 : gif_frame[1].image[y][1] = gif_frame[1].transparent_index

\* -------------------------------------------------------------------- C17
\* the rows of the frame given to trim_image in which every pixel is
\* transparent_index or has the colour of the Screen's pixel at its position
VanishingRows ==
    LET c == consolidated[1]
    IN {y \in DOMAIN c.image8 :
            \A x \in DOMAIN c.image8[y] :
                \/ c.image8[y][x] = c.transparent_index
                \/ c.pal[c.image8[y][x]] = screen.pixels[y][x]}

\* C17: trim_image returns None iff every row vanishes; otherwise it returns
\* left = 0 and the rows from the first to the last row that does not vanish,
\* unchanged and in full width, with top the number of rows above them.
TrimKeepsFirstToLastVisibleRow ==
    trimmed # <<>> =>
        LET image8 == consolidated[1].image8
            visible == DOMAIN image8 \ VanishingRows
            result == trimmed[1]
        IN /\ result = <<>> <=> visible = {}
           /\ result # <<>> =>
                LET first == CHOOSE y \in visible : \A z \in visible : y <= z
                    last == CHOOSE y \in visible : \A z \in visible : y >= z
                    rows == result[1].image8
                IN /\ result[1].left = 0
                   /\ result[1].top = first - 1
                   /\ Len(rows) = last - first + 1
                   /\ Len(rows) >= 1
                   /\ result[1].top + Len(rows) <= Len(screen.pixels)
                   /\ \A k \in 1..Len(rows) : rows[k] = image8[first - 1 + k]
                   /\ {1, Len(rows)} \cap {y - result[1].top : y \in VanishingRows} = {}

\* one row was trimmed at the bottom and one at the top; the row kept has a
\* pixel that vanishes and a pixel that does not
MiddleRowKept ==
    /\ trimmed # <<>> /\ trimmed[1] # <<>>
    /\ trimmed[1][1].top = 1 /\ Len(trimmed[1][1].image8) = 1
    /\ \E x \in 1..2 :
        \/ consolidated[1].image8[2][x] = consolidated[1].transparent_index
        \/ consolidated[1].pal[consolidated[1].image8[2][x]] = screen.pixels[2][x]


\* -------------------------------------------------------------------- C21
\* the input is one frame, added with pts = 0
LoneFrameAtZero == NFrames = 1 /\ frames[0].pts = 0

\* what the writer has done so far for a lone frame at pts 0: the frame it
\* received has end_pts 0 and delay 0, no write_frame call, at most one
\* finish() and one increase(); once write has returned, it returned Ok after
\* exactly one increase() and one finish()
LoneFrameSkippedSoFar ==
    /\ \A i \in 1..Len(recvEnds) : recvEnds[i] = 0
    /\ \A i \in 1..Len(recvEnds) : Delay(recvEnds[i], 0) = 0
    /\ pts_in_delay_units = 0
    /\ Writes = <<>>
    /\ Len(Finishes) <= 1 /\ increases <= 1
    /\ WriteReturned =>
          /\ writeResult = "Ok"
          /\ recvEnds = <<0>>
          /\ encLog = <<FinishCall>>
          /\ increases = 1

\* C21: for a single frame with pts = 0 the diff stage produces end_pts = 0,
\* the writer computes delay 0 and skips the frame: write_frame is never
\* called, finish() is called once, increase() is called once, and write
\* returns Ok.
LoneFrameAtZeroIsSkipped ==
    /\ [](LoneFrameAtZero => LoneFrameSkippedSoFar)
    /\ [](LoneFrameAtZero => <>(writeResult = "Ok"))

\* write returned Ok for a lone frame at pts 0 with finish() as the only sink call
LoneFrameRunReturnedEmpty ==
    /\ LoneFrameAtZero
    /\ writeResult = "Ok"
    /\ sentW = <<1>> /\ recvEnds = <<0>>
    /\ encLog = <<FinishCall>>
    /\ increases = 1


\* -------------------------------------------------------------------- C22
\* a worker stage has failed with its own error (NoFrames, WrongSize,
\* QuantizationFailed, a remap error)
StageFailed == ownError \in {"NoFrames", "WrongSize", "QuantizationFailed", "RemapFailed"}

\* C22: finish() is called only in runs where write returns Ok: when a worker
\* stage has failed or the reporter has aborted the run, finish() has not
\* been called and is never called.
FinishOnlyInOkRuns ==
    /\ (StageFailed \/ ReporterAborted) => Finishes = <<>>
    /\ (WriteReturned /\ Finishes # <<>> /\ ~SinkFinishFails) => writeResult = "Ok"


\* -------------------------------------------------------------------- C23
\* the ordinals of the frames remap_frames has blitted onto its Screen and
\* sent on: then_blit comes right before the send
BlittedOrdinals == sentW

\* C23: with no abort and no sink failure, every frame that remap_frames
\* blitted onto its Screen is passed to write_frame: each frame the writer
\* has received was written, and once write has returned Ok the sink has
\* received exactly the blitted frames.
EveryBlittedFrameIsWritten ==
    /\ Len(Writes) = Len(recvEnds)
    /\ writeResult = "Ok" => WrittenOrdinals = BlittedOrdinals

====
